---- MODULE Spec2Model ----
(***************************************************************************)
(* Verification model of the Users / Todos / Auth core of projectCB.       *)
(*                                                                         *)
(* The store is PostgreSQL reached through TypeORM; a handler is cut into  *)
(* steps at the awaits on which it waits for the store, because another    *)
(* request can run there.  Entities are objects on the JavaScript heap:    *)
(* the user cache maps an id to a reference, so a handler that got its     *)
(* entity from the cache mutates the cached object itself.                 *)
(***************************************************************************)
EXTENDS Integers, Sequences, FiniteSets, TLC

\* ------------------------------------------------------------------ bounds
MaxUsers == 2       \* rows the users table may hold
MaxTokens == 1      \* access tokens issued over a run
MaxTodos == 2       \* rows the todos table may ever hold
MaxTime == 1        \* latest instant of the clock

\* --------------------------------------------------------------- constants
ADMIN_ROLE == "admin"
USER_ROLE == "user"
UserRole == {ADMIN_ROLE, USER_ROLE}

Usernames == {"alice", "bob"}
Emails == {"a@x.com", "b@x.com"}
Passwords == {"longenough1"}

Procs == {"p1", "p2"}      \* request slots; the sequential specification uses p1 only
SeqProcs == {"p1"}

UserIds == 1..MaxUsers
ObjIds == 1..(MaxUsers + Cardinality(Procs))

VARIABLES
    users,      \* users table, committed rows: id -> row, NoUser when absent
    cache,      \* UserService.cache: id -> heap reference, 0 when absent
    heap,       \* UsersEntity objects: reference -> fields, NoUser when free
    proc,       \* per request slot: position in the handler and its locals
    tokens,     \* payloads of the access tokens signed so far
    todos,      \* todos table: id -> row, NoTodo when absent
    todoSeq,    \* the id sequence of the todos table: the last id handed out
    todoRes,    \* outcome of the last single-todo request
    listIn,     \* a list request: requester, query, and one row of the table
    listOut,    \* what findAllTodos made of it
    callIn,     \* a guard or a pagination helper tried alone: its arguments
    callOut     \* what it gave

userVars == <<users, cache, heap, proc, tokens>>
todoVars == <<todos, todoSeq, todoRes>>
listVars == <<listIn, listOut, callIn, callOut>>
vars == <<users, cache, heap, proc, tokens, todos, todoSeq, todoRes, listIn, listOut,
          callIn, callOut>>

\* ----------------------------------------------------------------- entities
NoUser == [id |-> 0, username |-> "", email |-> "", password |-> <<>>, role |-> "none"]

\* bcrypt.hash / bcrypt.compare: one-way, compare succeeds on the digest of the same text
BcryptHash(plain) == <<"bcrypt", plain>>
BcryptCompare(plain, digest) == digest = BcryptHash(plain)

NoClaims == [sub |-> 0, username |-> "", role |-> "none"]
NoJwtUser == [id |-> 0, username |-> "", role |-> "none"]

\* the account created by scripts/create-admin.ts
SeedAdmin ==
    [id |-> 1, username |-> "admin", email |-> "admin@example.com",
     password |-> BcryptHash("ChangeMe123!"), role |-> ADMIN_ROLE]

\* A request slot.  pc names the store call the handler awaits; io is that
\* call's state ("pending" until the store has run it, then "ok" or "fail").
\* At "done" the slot shows the finished request until the next one takes it.
\* msg is the message of the exception thrown, body the value the handler
\* returned, calls the collaborators it called, in order.
\* hit, loadedRole, pre and the n* counters record what the handler saw and did.
IdleProc ==
    [pc |-> "idle", op |-> "none", id |-> 0, dto |-> "none", by |-> NoJwtUser,
     io |-> "none", row |-> NoUser, adminCount |-> -1,
     user |-> 0, txWrite |-> "none", err |-> "none", ret |-> 0,
     hit |-> "none", loadedRole |-> "none", pre |-> <<>>,
     nRead |-> 0, nCommit |-> 0, nRollback |-> 0, nRelease |-> 0,
     msg |-> "", body |-> <<>>, calls |-> <<>>]

\* optional values: a field that is undefined, or that holds v
None == <<>>
Some(v) == <<v>>
Max(a, b) == IF a >= b THEN a ELSE b
Min(a, b) == IF a <= b THEN a ELSE b
OrElse(opt, default) == IF opt = None THEN default ELSE opt[1]

\* text is a sequence of characters; NullText is SQL NULL / undefined
NullText == <<"NULL">>
Texts == {<<"f", "o", "o">>, <<"b", "a", "r">>}

TodoIds == 1..MaxTodos
Times == 0..MaxTime

NoTodo == [id |-> 0, title |-> NullText, description |-> NullText, isDone |-> FALSE, ownerId |-> 0]
NoTodoRes ==
    [op |-> "none", id |-> 0, user |-> NoJwtUser, kind |-> "none", todo |-> NoTodo,
     calls |-> <<>>, deleted |-> FALSE]

EmptyQuery ==
    [page |-> None, limit |-> None, isDone |-> None, search |-> None,
     dateFrom |-> None, dateTo |-> None, sortBy |-> None, sortOrder |-> None]
NoListIn ==
    [user |-> NoJwtUser, query |-> EmptyQuery, now |-> 0,
     todo |-> [id |-> 0, title |-> NullText, description |-> NullText, isDone |-> FALSE,
               ownerId |-> 0, createdAt |-> 0]]
NoListOut == [kind |-> "none"]

InitUsers ==
    /\ users = [i \in UserIds |-> IF i = 1 THEN SeedAdmin ELSE NoUser]
    /\ cache = [i \in UserIds |-> 0]
    /\ heap = [o \in ObjIds |-> NoUser]
    /\ proc = [p \in Procs |-> IdleProc]
    /\ tokens = {}

InitTodos ==
    /\ todos = [i \in TodoIds |-> NoTodo]
    /\ todoSeq = 0
    /\ todoRes = NoTodoRes

NoCallIn == [fn |-> "none"]
NoCallOut == [kind |-> "none", message |-> <<>>]

InitCall ==
    /\ callIn = NoCallIn
    /\ callOut = NoCallOut

InitList ==
    /\ listIn = NoListIn
    /\ listOut = NoListOut
    /\ InitCall

Init == InitUsers /\ InitTodos /\ InitList

\* ------------------------------------------------------------ heap of entities
Referenced(o, c, pr) ==
    \/ \E i \in UserIds : c[i] = o
    \/ \E p \in Procs : pr[p].user = o \/ pr[p].ret = o

\* objects nothing refers to any more are reclaimed
Collect(h, c, pr) == [o \in ObjIds |-> IF Referenced(o, c, pr) THEN h[o] ELSE NoUser]

\* the reference of a newly loaded entity of row id: which free reference it
\* gets is immaterial, so the choice is fixed (id itself when free)
FreeObj(id) ==
    IF heap[id] = NoUser THEN id
    ELSE CHOOSE o \in ObjIds :
             /\ o > MaxUsers /\ heap[o] = NoUser
             /\ \A o2 \in ObjIds : (o2 > MaxUsers /\ heap[o2] = NoUser) => o <= o2

\* ------------------------------------------------------------------ the store
AdminCount == Cardinality({i \in UserIds : users[i].role = ADMIN_ROLE})
UserCount == Cardinality({i \in UserIds : users[i] # NoUser})
FindByUsername(username) == {i \in UserIds : users[i] # NoUser /\ users[i].username = username}
FindByEmail(email) == {i \in UserIds : users[i] # NoUser /\ users[i].email = email}
FindByUsernameOrEmail(x) == FindByUsername(x) \cup FindByEmail(x)
NextUserId == CHOOSE i \in UserIds : users[i] = NoUser /\ \A j \in UserIds : users[j] = NoUser => i <= j

\* ------------------------------------------------------ access policy (pure)
ROLE_HIERARCHY == (USER_ROLE :> 1) @@ (ADMIN_ROLE :> 2)

\* a hierarchy check that lets every role pass
hasRolePermission_Any(userRole, requiredRole) ==
    ROLE_HIERARCHY[userRole] >= ROLE_HIERARCHY[USER_ROLE]

hasRolePermission(userRole, requiredRole) ==
    ROLE_HIERARCHY[userRole] >= ROLE_HIERARCHY[requiredRole]

\* what a guard gives: it lets the request pass, or throws; the message of an
\* exception is kept as the pieces the text is put together from
Granted == [kind |-> "grant", message |-> <<>>]
Throw(kind, message) == [kind |-> kind, message |-> message]

\* Array.prototype.join
RECURSIVE Join(_, _)
Join(list, separator) ==
    IF Len(list) = 0 THEN <<>>
    ELSE IF Len(list) = 1 THEN <<list[1]>>
    ELSE <<list[1], separator>> \o Join(Tail(list), separator)

\* a roles guard that asks for the user before it looks at the route's roles
RolesGuardCanActivate_UserFirst(requiredRoles, user) ==
    IF user = NoJwtUser THEN Throw("Forbidden", <<"User not authenticated">>)
    ELSE IF requiredRoles = None \/ Len(requiredRoles[1]) = 0 THEN Granted
    ELSE IF \E i \in 1..Len(requiredRoles[1]) :
                hasRolePermission(user.role, requiredRoles[1][i])
         THEN Granted
         ELSE Throw("Forbidden",
                    <<"Access denied. Required roles: ">> \o Join(requiredRoles[1], ", "))

\* RolesGuard.canActivate.  requiredRoles is what the reflector finds: None
\* on a route without roles metadata, else the declared list.
RolesGuardCanActivate(requiredRoles, user) ==
    IF requiredRoles = None \/ Len(requiredRoles[1]) = 0 THEN Granted
    ELSE IF user = NoJwtUser THEN Throw("Forbidden", <<"User not authenticated">>)
    ELSE IF \E i \in 1..Len(requiredRoles[1]) :
                hasRolePermission(user.role, requiredRoles[1][i])
         THEN Granted
         ELSE Throw("Forbidden",
                    <<"Access denied. Required roles: ">> \o Join(requiredRoles[1], ", "))

\* JavaScript numbers as far as route ids need them: NaN, or the ratio num/den
\* in lowest terms
NaN == [nan |-> TRUE, num |-> 0, den |-> 1]
Num(n, d) == [nan |-> FALSE, num |-> n, den |-> d]

\* Number(text) on the route parameters tried
Number(text) ==
    CASE text = "0" -> Num(0, 1)
      [] text = "1" -> Num(1, 1)
      [] text = "2" -> Num(2, 1)
      [] text = "3" -> Num(3, 1)
      [] text = "1.0" -> Num(1, 1)
      [] text = "-1" -> Num(-1, 1)
      [] text = "1.5" -> Num(3, 2)
      [] text = "" -> Num(0, 1)
      [] OTHER -> NaN

IsNaN(v) == v.nan
NumberIsInteger(v) == ~v.nan /\ v.den = 1

\* a self-or-admin guard that lets an admin pass before it validates the id
SelfOrAdminGuardCanActivate_AdminFirst(user, id) ==
    LET paramId == Number(id)
    IN  IF user = NoJwtUser THEN Throw("Forbidden", <<"User not authenticated">>)
        ELSE IF user.role = ADMIN_ROLE THEN Granted
        ELSE IF IsNaN(paramId) \/ paramId.num <= 0 \/ ~NumberIsInteger(paramId)
        THEN Throw("BadRequest", <<"Invalid user ID. Must be a positive integer.">>)
        ELSE IF user.id = paramId.num THEN Granted
        ELSE Throw("Forbidden", <<"Access denied. You can only access your own resources.">>)

\* SelfOrAdminGuard.canActivate; id is req.params.id, the text in the route
SelfOrAdminGuardCanActivate(user, id) ==
    LET paramId == Number(id)
    IN  IF user = NoJwtUser THEN Throw("Forbidden", <<"User not authenticated">>)
        ELSE IF IsNaN(paramId) \/ paramId.num <= 0 \/ ~NumberIsInteger(paramId)
        THEN Throw("BadRequest", <<"Invalid user ID. Must be a positive integer.">>)
        ELSE IF user.role = ADMIN_ROLE THEN Granted
        ELSE IF user.id = paramId.num THEN Granted
        ELSE Throw("Forbidden", <<"Access denied. You can only access your own resources.">>)

\* a validate that looks the role up in the users table
JwtStrategyValidate_StoredRole(payload) ==
    [id |-> payload.sub, username |-> payload.username, role |-> users[payload.sub].role]

\* JwtStrategy.validate: decoded payload -> request.user
JwtStrategyValidate(payload) ==
    [id |-> payload.sub, username |-> payload.username, role |-> payload.role]

\* JwtAuthGuard: a request without a token this server signed is refused
\* before any other guard or handler runs
JwtAuthGuard(tok) == IF tok \in tokens THEN JwtStrategyValidate(tok) ELSE NoJwtUser

\* @Auth(...roles): JwtAuthGuard, then RolesGuard with the declared roles
Auth(roles, tok) ==
    IF JwtAuthGuard(tok) = NoJwtUser THEN "Unauthorized"
    ELSE RolesGuardCanActivate(Some(roles), JwtAuthGuard(tok)).kind

\* ------------------------------------------------------------- UserService
Free(p) == proc[p].pc \in {"idle", "done"}

\* a guard refused the request: the handler is not called
Refuse(p, kind) == proc' = [proc EXCEPT ![p] = [IdleProc EXCEPT !.pc = "done", !.err = kind]]

RoleSnapshot == [i \in UserIds |-> users[i].role]

\* a catch block that re-throws without rolling back
Catch_NoRollback(r, kind) == [r EXCEPT !.err = kind, !.pc = "release", !.io = "none"]

\* updateRole, catch block: rollbackTransaction is awaited, then the error is re-thrown
Catch(r, kind) == [r EXCEPT !.err = kind, !.pc = "rollback", !.io = "pending"]

\* updateRole between findById's return and the next store call: the guard on
\* the loaded entity's role, then either the count or "user.role = dto.role"
\* followed by the save.  Gives the slot and the heap.
AfterLoad(r, o, h) ==
    IF h[o].role = ADMIN_ROLE /\ r.dto # ADMIN_ROLE
    THEN <<[r EXCEPT !.user = o, !.loadedRole = h[o].role, !.pc = "count", !.io = "pending"], h>>
    ELSE <<[r EXCEPT !.user = o, !.loadedRole = h[o].role, !.pc = "save", !.io = "pending"],
           [h EXCEPT ![o].role = r.dto]>>

\* PATCH /users/:id/role -> UserController.updateRole -> UserService.updateRole
\* up to the await of startTransaction
RequestUpdateRole(p, tok, id, role) ==
    /\ Free(p)
    /\ IF Auth(<<ADMIN_ROLE>>, tok) # "grant"
       THEN Refuse(p, Auth(<<ADMIN_ROLE>>, tok))
       ELSE proc' = [proc EXCEPT ![p] =
                [IdleProc EXCEPT !.pc = "startTransaction", !.op = "updateRole",
                                 !.id = id, !.dto = role, !.by = JwtAuthGuard(tok),
                                 !.pre = RoleSnapshot]]
    /\ heap' = Collect(heap, cache, proc')
    /\ UNCHANGED <<users, cache, tokens, todoVars, listVars>>

\* GET /users/:id -> UserController.findOne -> UserService.findById
RequestFindOne(p, tok, id) ==
    /\ Free(p)
    /\ LET a == Auth(<<>>, tok)
           g == SelfOrAdminGuardCanActivate(JwtAuthGuard(tok), ToString(id)).kind
           r == [IdleProc EXCEPT !.op = "findById", !.id = id, !.by = JwtAuthGuard(tok),
                                 !.pre = RoleSnapshot]
       IN  IF a # "grant" THEN Refuse(p, a)
           ELSE IF g # "grant" THEN Refuse(p, g)
           ELSE IF cache[id] # 0
           THEN proc' = [proc EXCEPT ![p] =
                    [r EXCEPT !.pc = "done", !.hit = "hit", !.ret = cache[id]]]
           ELSE proc' = [proc EXCEPT ![p] =
                    [r EXCEPT !.pc = "findOne", !.hit = "miss", !.io = "pending"]]
    /\ heap' = Collect(heap, cache, proc')
    /\ UNCHANGED <<users, cache, tokens, todoVars, listVars>>

\* updateRole after startTransaction: findById(id), cache first
ResumeStartTransaction(p) ==
    /\ proc[p].pc = "startTransaction"
    /\ IF cache[proc[p].id] # 0
       THEN LET n == AfterLoad([proc[p] EXCEPT !.hit = "hit"], cache[proc[p].id], heap)
            IN  /\ proc' = [proc EXCEPT ![p] = n[1]]
                /\ heap' = n[2]
       ELSE /\ proc' = [proc EXCEPT ![p].pc = "findOne", ![p].hit = "miss",
                                    ![p].io = "pending"]
            /\ UNCHANGED heap
    /\ UNCHANGED <<users, cache, tokens, todoVars, listVars>>

\* the store runs usersRepository.findOne({ where: { id } }) (outside the transaction)
StoreFindOne(p, ok) ==
    /\ proc[p].pc = "findOne" /\ proc[p].io = "pending"
    /\ proc' = [proc EXCEPT ![p].io = IF ok THEN "ok" ELSE "fail",
                            ![p].row = IF ok THEN users[proc[p].id] ELSE NoUser,
                            ![p].nRead = 1]
    /\ UNCHANGED <<users, cache, heap, tokens, todoVars, listVars>>

\* a findById that returns the row it read without cache.set
ResumeFindOne_NoCacheSet(p) ==
    /\ proc[p].pc = "findOne" /\ proc[p].io \in {"ok", "fail"}
    /\ LET r == proc[p]
           kind == IF r.io = "fail" THEN "DbError" ELSE "NotFound"
       IN  IF r.io = "fail" \/ r.row = NoUser
           THEN /\ proc' = [proc EXCEPT ![p] =
                       IF r.op = "updateRole" THEN Catch(r, kind)
                       ELSE [r EXCEPT !.pc = "done", !.io = "none", !.err = kind]]
                /\ UNCHANGED <<cache, heap>>
           ELSE LET o == FreeObj(r.id)
                    h == [heap EXCEPT ![o] = r.row]
                    c == cache
                    n == IF r.op = "updateRole" THEN AfterLoad(r, o, h)
                         ELSE <<[r EXCEPT !.pc = "done", !.io = "none", !.ret = o], h>>
                IN  /\ proc' = [proc EXCEPT ![p] = n[1]]
                    /\ cache' = c
                    /\ heap' = Collect(n[2], c, proc')
    /\ UNCHANGED <<users, tokens, todoVars, listVars>>

\* findById after findOne: NotFound, or cache.set(id, user) and return
ResumeFindOne(p) ==
    /\ proc[p].pc = "findOne" /\ proc[p].io \in {"ok", "fail"}
    /\ LET r == proc[p]
           kind == IF r.io = "fail" THEN "DbError" ELSE "NotFound"
       IN  IF r.io = "fail" \/ r.row = NoUser
           THEN /\ proc' = [proc EXCEPT ![p] =
                       IF r.op = "updateRole" THEN Catch(r, kind)
                       ELSE [r EXCEPT !.pc = "done", !.io = "none", !.err = kind]]
                /\ UNCHANGED <<cache, heap>>
           ELSE LET o == FreeObj(r.id)
                    h == [heap EXCEPT ![o] = r.row]
                    c == [cache EXCEPT ![r.id] = o]
                    n == IF r.op = "updateRole" THEN AfterLoad(r, o, h)
                         ELSE <<[r EXCEPT !.pc = "done", !.io = "none", !.ret = o], h>>
                IN  /\ proc' = [proc EXCEPT ![p] = n[1]]
                    /\ cache' = c
                    /\ heap' = Collect(n[2], c, proc')
    /\ UNCHANGED <<users, tokens, todoVars, listVars>>

\* the store runs queryRunner.manager.count(UsersEntity, { where: { role: ADMIN_ROLE } }):
\* a READ COMMITTED statement sees the rows committed when it runs
StoreCount(p, ok) ==
    /\ proc[p].pc = "count" /\ proc[p].io = "pending"
    /\ proc' = [proc EXCEPT ![p].io = IF ok THEN "ok" ELSE "fail",
                            ![p].adminCount = IF ok THEN AdminCount ELSE -1]
    /\ UNCHANGED <<users, cache, heap, tokens, todoVars, listVars>>

\* a guard that stops only at a count of zero
ResumeCount_BelowOne(p) ==
    /\ proc[p].pc = "count" /\ proc[p].io \in {"ok", "fail"}
    /\ LET r == proc[p]
       IN  IF r.io = "fail"
           THEN /\ proc' = [proc EXCEPT ![p] = Catch(r, "DbError")]
                /\ UNCHANGED heap
           ELSE IF r.adminCount < 1
           THEN /\ proc' = [proc EXCEPT ![p] = Catch(r, "Conflict")]
                /\ UNCHANGED heap
           ELSE /\ proc' = [proc EXCEPT ![p].pc = "save", ![p].io = "pending"]
                /\ heap' = [heap EXCEPT ![r.user].role = r.dto]
    /\ UNCHANGED <<users, cache, tokens, todoVars, listVars>>

\* updateRole after the count: the last-admin guard, then user.role = dto.role and the save
ResumeCount(p) ==
    /\ proc[p].pc = "count" /\ proc[p].io \in {"ok", "fail"}
    /\ LET r == proc[p]
       IN  IF r.io = "fail"
           THEN /\ proc' = [proc EXCEPT ![p] = Catch(r, "DbError")]
                /\ UNCHANGED heap
           ELSE IF r.adminCount <= 1
           THEN /\ proc' = [proc EXCEPT ![p] = Catch(r, "Conflict")]
                /\ UNCHANGED heap
           ELSE /\ proc' = [proc EXCEPT ![p].pc = "save", ![p].io = "pending"]
                /\ heap' = [heap EXCEPT ![r.user].role = r.dto]
    /\ UNCHANGED <<users, cache, tokens, todoVars, listVars>>

\* the store runs queryRunner.manager.save(UsersEntity, user): an UPDATE of the
\* row inside the transaction when the entity differs from it.  The UPDATE waits
\* while another open transaction holds an uncommitted write of the same row.
StoreSave(p, ok) ==
    /\ proc[p].pc = "save" /\ proc[p].io = "pending"
    /\ \A q \in Procs \ {p} : ~(proc[q].txWrite # "none" /\ proc[q].id = proc[p].id)
    /\ proc' = [proc EXCEPT ![p].io = IF ok THEN "ok" ELSE "fail",
                            ![p].txWrite =
                                IF ok /\ heap[proc[p].user].role # users[proc[p].id].role
                                THEN heap[proc[p].user].role ELSE "none"]
    /\ UNCHANGED <<users, cache, heap, tokens, todoVars, listVars>>

\* updateRole after the save: commitTransaction
ResumeSave(p) ==
    /\ proc[p].pc = "save" /\ proc[p].io \in {"ok", "fail"}
    /\ proc' = [proc EXCEPT ![p] =
           IF proc[p].io = "fail" THEN Catch(proc[p], "DbError")
           ELSE [proc[p] EXCEPT !.pc = "commit", !.io = "pending"]]
    /\ UNCHANGED <<users, cache, heap, tokens, todoVars, listVars>>

\* the store runs COMMIT: the transaction's write becomes the committed row
StoreCommit(p, ok) ==
    /\ proc[p].pc = "commit" /\ proc[p].io = "pending"
    /\ IF ok
       THEN /\ users' = IF proc[p].txWrite = "none" THEN users
                        ELSE [users EXCEPT ![proc[p].id].role = proc[p].txWrite]
            /\ proc' = [proc EXCEPT ![p].io = "ok", ![p].txWrite = "none", ![p].nCommit = 1]
       ELSE /\ proc' = [proc EXCEPT ![p].io = "fail"]
            /\ UNCHANGED users
    /\ UNCHANGED <<cache, heap, tokens, todoVars, listVars>>

\* an updateRole that drops the cache entry after the commit
ResumeCommit_Evict(p) ==
    /\ proc[p].pc = "commit" /\ proc[p].io \in {"ok", "fail"}
    /\ IF proc[p].io = "fail"
       THEN /\ proc' = [proc EXCEPT ![p] = Catch(proc[p], "DbError")]
            /\ UNCHANGED <<cache, heap>>
       ELSE /\ proc' = [proc EXCEPT ![p].pc = "release", ![p].io = "none",
                                    ![p].ret = proc[p].user]
            /\ cache' = [cache EXCEPT ![proc[p].id] = 0]
            /\ heap' = Collect(heap, cache', proc')
    /\ UNCHANGED <<users, tokens, todoVars, listVars>>

\* updateRole after the commit: cache.set(id, updatedUser), return; finally release
ResumeCommit(p) ==
    /\ proc[p].pc = "commit" /\ proc[p].io \in {"ok", "fail"}
    /\ IF proc[p].io = "fail"
       THEN /\ proc' = [proc EXCEPT ![p] = Catch(proc[p], "DbError")]
            /\ UNCHANGED <<cache, heap>>
       ELSE /\ proc' = [proc EXCEPT ![p].pc = "release", ![p].io = "none",
                                    ![p].ret = proc[p].user]
            /\ cache' = [cache EXCEPT ![proc[p].id] = proc[p].user]
            /\ heap' = Collect(heap, cache', proc')
    /\ UNCHANGED <<users, tokens, todoVars, listVars>>

\* the store runs ROLLBACK: the transaction's write is dropped
StoreRollback(p) ==
    /\ proc[p].pc = "rollback" /\ proc[p].io = "pending"
    /\ proc' = [proc EXCEPT ![p].io = "ok", ![p].txWrite = "none",
                            ![p].nRollback = proc[p].nRollback + 1]
    /\ UNCHANGED <<users, cache, heap, tokens, todoVars, listVars>>

\* updateRole after the rollback: re-throw; finally release
ResumeRollback(p) ==
    /\ proc[p].pc = "rollback" /\ proc[p].io = "ok"
    /\ proc' = [proc EXCEPT ![p].pc = "release", ![p].io = "none"]
    /\ UNCHANGED <<users, cache, heap, tokens, todoVars, listVars>>

\* finally { await queryRunner.release() }, then the call returns or throws
ResumeRelease(p) ==
    /\ proc[p].pc = "release"
    /\ proc' = [proc EXCEPT ![p].pc = "done", ![p].nRelease = proc[p].nRelease + 1]
    /\ UNCHANGED <<users, cache, heap, tokens, todoVars, listVars>>

\* a handler that is modelled in one step has answered: the slot shows its outcome
Answer(p, op, kind, msg, body, calls) ==
    /\ proc' = [proc EXCEPT ![p] =
           [IdleProc EXCEPT !.pc = "done", !.op = op, !.err = kind, !.msg = msg,
                            !.body = body, !.calls = calls]]
    /\ heap' = Collect(heap, cache, proc')

\* const { password: _, ...userWithoutPassword } = savedUser
WithoutPassword(user) == [k \in DOMAIN user \ {"password"} |-> user[k]]

\* a createUser that hashes the secret before it looks the username up
CreateUser_HashBeforeCheck(p, username, email, password) ==
    /\ Free(p)
    /\ LET saved == [id |-> NextUserId, username |-> username, email |-> email,
                     password |-> BcryptHash(password), role |-> USER_ROLE]
           insert == <<"bcrypt.hash", "findByUsername", "create", "save">>
       IN  IF FindByUsername(username) # {}
           THEN /\ UNCHANGED users
                /\ Answer(p, "register", "Conflict", "Username already exists", <<>>,
                          <<"bcrypt.hash", "findByUsername">>)
           ELSE IF FindByEmail(email) # {}
           THEN /\ UNCHANGED users
                /\ Answer(p, "register", "UniqueViolation", "", <<>>, insert)
           ELSE /\ UserCount < MaxUsers
                /\ users' = [users EXCEPT ![NextUserId] = saved]
                /\ Answer(p, "register", "none", "",
                          [message |-> "User registered successfully",
                           user |-> WithoutPassword(saved)], insert)
    /\ UNCHANGED <<cache, tokens, todoVars, listVars>>

\* POST /auth/register -> AuthService.register -> UserService.createUser.
\* The unique index on email makes the INSERT fail (QueryFailedError, code
\* 23505) when the email is taken.
CreateUser(p, username, email, password) ==
    /\ Free(p)
    /\ LET saved == [id |-> NextUserId, username |-> username, email |-> email,
                     password |-> BcryptHash(password), role |-> USER_ROLE]
           insert == <<"findByUsername", "bcrypt.hash", "create", "save">>
       IN  IF FindByUsername(username) # {}
           THEN /\ UNCHANGED users
                /\ Answer(p, "register", "Conflict", "Username already exists", <<>>,
                          <<"findByUsername">>)
           ELSE IF FindByEmail(email) # {}
           THEN /\ UNCHANGED users
                /\ Answer(p, "register", "UniqueViolation", "", <<>>, insert)
           ELSE /\ UserCount < MaxUsers
                /\ users' = [users EXCEPT ![NextUserId] = saved]
                /\ Answer(p, "register", "none", "",
                          [message |-> "User registered successfully",
                           user |-> WithoutPassword(saved)], insert)
    /\ UNCHANGED <<cache, tokens, todoVars, listVars>>

\* UserService.findAll: page and limit clamped, then findAndCount with
\* order createdAt DESC (ids are handed out in creation order), skip and take.
\* The rows are the entities as loaded.
FindAllParams(query) ==
    LET page == Max(1, OrElse(query.page, 1))
        limit == Min(100, Max(1, OrElse(query.limit, 10)))
    IN  [page |-> page, limit |-> limit, skip |-> (page - 1) * limit, take |-> limit]

RECURSIVE NewestFirst(_)
NewestFirst(ids) ==
    IF ids = {} THEN <<>>
    ELSE LET i == CHOOSE i \in ids : \A j \in ids : j <= i
         IN  <<users[i]>> \o NewestFirst(ids \ {i})

\* Math.ceil(n / d) for n >= 0 and d > 0: the quotient, one more when the
\* division leaves a remainder
MathCeil(n, d) == IF n % d = 0 THEN n \div d ELSE (n \div d) + 1

\* UserService.findAll, step 3 and 4: the pagination it reports for the
\* total the store counted
FindAllPagination(page, limit, total) ==
    LET totalPages == MathCeil(total, limit)
        hasNextPage == page < totalPages
        hasPrevPage == page > 1
    IN  [page |-> page, limit |-> limit, total |-> total, totalPages |-> totalPages,
         hasNextPage |-> hasNextPage, hasPrevPage |-> hasPrevPage]

FindAll(query) ==
    LET q == FindAllParams(query)
        rows == NewestFirst({i \in UserIds : users[i] # NoUser})
        total == Len(rows)
    IN  [users |-> SubSeq(rows, q.skip + 1, Min(total, q.skip + q.take)),
         pagination |-> FindAllPagination(q.page, q.limit, total)]

\* GET /users, @Auth('admin'): the controller returns what findAll returns
RequestFindAll(p, tok, query) ==
    /\ Free(p)
    /\ LET a == Auth(<<ADMIN_ROLE>>, tok)
       IN  IF a # "grant"
           THEN Refuse(p, a) /\ heap' = Collect(heap, cache, proc')
           ELSE Answer(p, "findAll", "none", "", FindAll(query), <<"findAndCount">>)
    /\ UNCHANGED <<users, cache, tokens, todoVars, listVars>>

\* the Account values in the body of the response the slot shows: the
\* controllers return the services' values as they are
AccountsSent(p) ==
    IF proc[p].pc # "done" \/ proc[p].err # "none" THEN {}
    ELSE IF proc[p].op \in {"findById", "updateRole"} THEN {heap[proc[p].ret]}
    ELSE IF proc[p].op = "findAll"
    THEN {proc[p].body.users[k] : k \in 1..Len(proc[p].body.users)}
    ELSE IF proc[p].op = "register" THEN {proc[p].body.user}
    ELSE {}

\* ------------------------------------------------------------- AuthService
\* a login that signs the default role instead of the Account's role
LoginPayload_DefaultRole(user) == [sub |-> user.id, username |-> user.username, role |-> USER_ROLE]

\* AuthService.login: the payload that is signed
LoginPayload(user) == [sub |-> user.id, username |-> user.username, role |-> user.role]

\* a validateUser that accepts any secret for an Account it found
ValidateUser_NoCompare(usernameOrEmail, password) ==
    LET found == FindByUsernameOrEmail(usernameOrEmail)
        i == CHOOSE i \in found : TRUE
    IN  IF found = {}
        THEN [kind |-> "Unauthorized", message |-> "User not found", id |-> 0,
              calls |-> <<"findByUsernameOrEmail">>]
        ELSE [kind |-> "none", message |-> "", id |-> i,
              calls |-> <<"findByUsernameOrEmail">>]

\* AuthService.validateUser: the user's id, or the exception thrown, and the
\* calls made.  The lookup matches at most one row here.
ValidateUser(usernameOrEmail, password) ==
    LET found == FindByUsernameOrEmail(usernameOrEmail)
        i == CHOOSE i \in found : TRUE
    IN  IF found = {}
        THEN [kind |-> "Unauthorized", message |-> "User not found", id |-> 0,
              calls |-> <<"findByUsernameOrEmail">>]
        ELSE IF ~BcryptCompare(password, users[i].password)
        THEN [kind |-> "Unauthorized", message |-> "Wrong password", id |-> 0,
              calls |-> <<"findByUsernameOrEmail", "bcrypt.compare">>]
        ELSE [kind |-> "none", message |-> "", id |-> i,
              calls |-> <<"findByUsernameOrEmail", "bcrypt.compare">>]

\* POST /auth/login -> processLogin: validateUser, then login
ProcessLogin(p, usernameOrEmail, password) ==
    /\ Free(p)
    /\ LET v == ValidateUser(usernameOrEmail, password)
           payload == LoginPayload(users[v.id])
       IN  IF v.kind # "none"
           THEN UNCHANGED tokens /\ Answer(p, "login", v.kind, v.message, <<>>, v.calls)
           ELSE /\ payload \in tokens \/ Cardinality(tokens) < MaxTokens
                /\ tokens' = tokens \cup {payload}
                /\ Answer(p, "login", "none", "", [access_token |-> payload],
                          v.calls \o <<"jwt.sign">>)
    /\ UNCHANGED <<users, cache, todoVars, listVars>>

\* ------------------------------------------------------ HttpExceptionFilter
\* getExceptionInfo / handleDatabaseError: what the client is sent for an
\* exception.  An HttpException keeps its status and message; a unique
\* violation of the store becomes 409; any other store failure 500.
HttpStatus ==
    [kind \in {"BadRequest", "Unauthorized", "Forbidden", "NotFound", "Conflict"} |->
        CASE kind = "BadRequest" -> 400
          [] kind = "Unauthorized" -> 401
          [] kind = "Forbidden" -> 403
          [] kind = "NotFound" -> 404
          [] kind = "Conflict" -> 409]

HttpExceptionFilter(kind, message) ==
    IF kind \in DOMAIN HttpStatus
    THEN [status |-> HttpStatus[kind], message |-> message]
    ELSE IF kind = "UniqueViolation"
    THEN [status |-> 409, message |-> "Resource already exists"]
    ELSE [status |-> 500, message |-> "Database operation failed"]

\* ------------------------------------------------------------ specifications
Idle == \A p \in Procs : Free(p)

\* what a login may give as usernameOrEmail: the usernames, and one email
LoginNames == Usernames \cup {"a@x.com", SeedAdmin.username}
\* each password is the wrong one for the other account
LoginPasswords == Passwords \cup {"ChangeMe123!"}
Bearer == tokens \cup {NoClaims}
\* GET /users queries: page and limit left to their defaults
UserQueries == {[page |-> None, limit |-> None]}

\* the registrations tried: a first one, one with the other username and the
\* same email, one with the other username and the other email
CreateUsersDtos ==
    {[username |-> "alice", email |-> "a@x.com"], [username |-> "bob", email |-> "a@x.com"],
     [username |-> "bob", email |-> "b@x.com"]}

Register ==
    \E p \in SeqProcs, dto \in CreateUsersDtos, pw \in Passwords :
        Idle /\ CreateUser(p, dto.username, dto.email, pw)
Login ==
    \E p \in SeqProcs, x \in LoginNames, pw \in LoginPasswords :
        Idle /\ ProcessLogin(p, x, pw)

\* a store call of slot p runs; oks says whether it may fail
StoreStep(p, oks) ==
    \/ \E ok \in oks : StoreFindOne(p, ok)
    \/ \E ok \in oks : StoreCount(p, ok)
    \/ \E ok \in oks : StoreSave(p, ok)
    \/ \E ok \in oks : StoreCommit(p, ok)
    \/ StoreRollback(p)

HandlerStep(p) ==
    \/ ResumeStartTransaction(p)
    \/ ResumeFindOne(p)
    \/ ResumeCount(p)
    \/ ResumeSave(p)
    \/ ResumeCommit(p)
    \/ ResumeRollback(p)
    \/ ResumeRelease(p)

\* one request at a time
Next ==
    \/ Register
    \/ Login
    \/ \E p \in SeqProcs, tok \in Bearer, id \in UserIds, role \in UserRole :
          Idle /\ RequestUpdateRole(p, tok, id, role)
    \/ \E p \in SeqProcs, tok \in Bearer, id \in 0..MaxUsers :
          Idle /\ RequestFindOne(p, tok, id)
    \/ \E p \in SeqProcs, tok \in Bearer, query \in UserQueries :
          Idle /\ RequestFindAll(p, tok, query)
    \/ \E p \in SeqProcs : StoreStep(p, BOOLEAN)
    \/ \E p \in SeqProcs : HandlerStep(p)

Spec == Init /\ [][Next]_vars

\* Requests overlap: a handler waiting for the store lets another one run.
\* Store calls do not fail here: the interleavings are what is looked at.
\* The run starts where one request at a time can bring the system: the seed
\* admin has logged in and has promoted alice, whose entity is in the cache.
\* Each slot serves one request.
Alice ==
    [id |-> 2, username |-> "alice", email |-> "a@x.com",
     password |-> BcryptHash("longenough1"), role |-> ADMIN_ROLE]

InitConc ==
    /\ InitTodos /\ InitList
    /\ users = [i \in UserIds |-> IF i = 1 THEN SeedAdmin ELSE IF i = 2 THEN Alice ELSE NoUser]
    /\ cache = [i \in UserIds |-> IF i = 2 THEN 2 ELSE 0]
    /\ heap = [o \in ObjIds |-> IF o = 2 THEN Alice ELSE NoUser]
    /\ proc = [p \in Procs |-> IdleProc]
    /\ tokens = {LoginPayload(SeedAdmin)}

NextConc ==
    \/ \E p \in Procs, tok \in Bearer, id \in UserIds, role \in UserRole :
          proc[p].pc = "idle" /\ RequestUpdateRole(p, tok, id, role)
    \/ \E p \in Procs, tok \in Bearer, id \in 0..MaxUsers :
          proc[p].pc = "idle" /\ RequestFindOne(p, tok, id)
    \/ \E p \in Procs : StoreStep(p, {TRUE})
    \/ \E p \in Procs : HandlerStep(p)

SpecConc == InitConc /\ [][NextConc]_vars

\* ------------------------------------------------- TodosService.findAllTodos

\* conditions of a where-clause object
Equal(v) == [op |-> "equal", value |-> v]
Between(from, to) == [op |-> "between", from |-> from, to |-> to]
Like(pattern) == [op |-> "like", pattern |-> pattern]

\* SQL LIKE: % is any run of characters, _ is any one character
RECURSIVE LikeMatch(_, _)
LikeMatch(text, pattern) ==
    IF pattern = <<>> THEN text = <<>>
    ELSE IF Head(pattern) = "%"
         THEN LikeMatch(text, Tail(pattern)) \/ (text # <<>> /\ LikeMatch(Tail(text), pattern))
    ELSE IF text = <<>> THEN FALSE
    ELSE (Head(pattern) = "_" \/ Head(pattern) = Head(text)) /\ LikeMatch(Tail(text), Tail(pattern))

\* the store on one column value; NULL satisfies no condition
MatchCondition(v, c) ==
    CASE c.op = "equal" -> v = c.value
      [] c.op = "between" -> c.from <= v /\ v <= c.to
      [] c.op = "like" -> v # NullText /\ LikeMatch(v, c.pattern)

\* TypeORM find options: the keys of one where object are ANDed,
\* the objects of a where array are ORed
MatchObject(row, clause) == \A k \in DOMAIN clause : MatchCondition(row[k], clause[k])
MatchWhere(row, where) ==
    IF where.isArray
    THEN \E i \in 1..Len(where.clauses) : MatchObject(row, where.clauses[i])
    ELSE MatchObject(row, where.clauses[1])

WhereObject(clause) == [isArray |-> FALSE, clauses |-> <<clause>>]
WhereArray(clauses) == [isArray |-> TRUE, clauses |-> clauses]

\* { ...a, ...b }: the keys of b win
Spread(a, b) == b @@ a

\* pagination parameters without the cap of 100 on the limit
BuildPaginationParams_NoCap(query) ==
    LET page == Max(1, OrElse(query.page, 1))
        limit == Max(1, OrElse(query.limit, 10))
    IN  [page |-> page, limit |-> limit, skip |-> (page - 1) * limit]

BuildPaginationParams(query) ==
    LET page == Max(1, OrElse(query.page, 1))
        limit == Min(100, Max(1, OrElse(query.limit, 10)))
    IN  [page |-> page, limit |-> limit, skip |-> (page - 1) * limit]

\* a date filter whose upper bound is always the current time
BuildDateFilter_UpperNow(dateFrom, dateTo, clock) ==
    IF dateFrom # None
    THEN "createdAt" :> Between(dateFrom[1], clock)
    ELSE IF dateTo # None
    THEN "createdAt" :> Between(0, dateTo[1])
    ELSE <<>>

\* buildDateFilter; clock is what new Date() gives, 0 is new Date(0)
BuildDateFilter(dateFrom, dateTo, clock) ==
    IF dateFrom # None
    THEN "createdAt" :> Between(dateFrom[1], IF dateTo # None THEN dateTo[1] ELSE clock)
    ELSE IF dateTo # None
    THEN "createdAt" :> Between(0, dateTo[1])
    ELSE <<>>

BuildSearchConditions(search) ==
    IF search = None \/ search[1] = <<>> THEN <<>>
    ELSE LET searchTerm == <<"%">> \o search[1] \o <<"%">>
         IN  <<"title" :> Like(searchTerm), "description" :> Like(searchTerm)>>

CombineWhereConditions(whereConditions, searchConditions) ==
    IF Len(whereConditions) > 0 /\ Len(searchConditions) > 0
    THEN WhereArray(
             [i \in 1..Len(whereConditions) |-> Spread(whereConditions[i], searchConditions[1])]
             \o [i \in 1..Len(whereConditions) |-> Spread(whereConditions[i], searchConditions[2])])
    ELSE IF Len(whereConditions) > 0
    THEN IF Len(whereConditions) = 1 THEN WhereObject(whereConditions[1])
         ELSE WhereArray(whereConditions)
    ELSE IF Len(searchConditions) > 0
    THEN WhereArray(searchConditions)
    ELSE WhereObject(<<>>)

BuildWhereConditions(user, query, clock) ==
    LET owner == IF user.role # "admin" THEN <<"ownerId" :> Equal(user.id)>> ELSE <<>>
        status == IF query.isDone # None
                  THEN <<"isDone" :> Equal(query.isDone[1] = "true")>> ELSE <<>>
        dates == IF query.dateFrom # None \/ query.dateTo # None
                 THEN <<BuildDateFilter(query.dateFrom, query.dateTo, clock)>> ELSE <<>>
    IN  CombineWhereConditions(owner \o status \o dates, BuildSearchConditions(query.search))

allowedSortFields == <<"id", "title", "isDone", "createdAt", "updatedAt">>

\* String.prototype.toUpperCase on the sort orders tried
ToUpperCase(s) ==
    CASE s = "asc" -> "ASC" [] s = "desc" -> "DESC" [] s = "Desc" -> "DESC" [] OTHER -> s

\* a || b on an optional text: b when a is undefined or the empty text
LogicalOr(opt, default) == IF opt = None \/ opt[1] = "" THEN default ELSE opt[1]

\* an order clause built without the allow-list check
BuildOrderClause_NoCheck(query) ==
    LET sortBy == LogicalOr(query.sortBy, "createdAt")
        sortOrder == LogicalOr(query.sortOrder, "desc")
    IN  [kind |-> "ok", field |-> sortBy, direction |-> ToUpperCase(sortOrder)]

\* the order clause { [sortBy]: sortOrder.toUpperCase() }, or the
\* BadRequestException it throws
BuildOrderClause(query) ==
    LET sortBy == LogicalOr(query.sortBy, "createdAt")
        sortOrder == LogicalOr(query.sortOrder, "desc")
    IN  IF \E i \in 1..Len(allowedSortFields) : allowedSortFields[i] = sortBy
        THEN [kind |-> "ok", field |-> sortBy, direction |-> ToUpperCase(sortOrder)]
        ELSE [kind |-> "BadRequest", field |-> sortBy, allowed |-> allowedSortFields,
              message |-> <<"Invalid sort field: ", sortBy, ". Allowed fields: ">>
                              \o Join(allowedSortFields, ", ")]

\* a pagination metadata that rounds the number of pages down
BuildPaginationMetadata_Floor(page, limit, total) ==
    LET totalPages == total \div limit
        hasNextPage == page < totalPages
        hasPrevPage == page > 1
    IN  [page |-> page, limit |-> limit, total |-> total, totalPages |-> totalPages,
         hasNextPage |-> hasNextPage, hasPrevPage |-> hasPrevPage]

BuildPaginationMetadata(page, limit, total) ==
    LET totalPages == MathCeil(total, limit)
        hasNextPage == page < totalPages
        hasPrevPage == page > 1
    IN  [page |-> page, limit |-> limit, total |-> total, totalPages |-> totalPages,
         hasNextPage |-> hasNextPage, hasPrevPage |-> hasPrevPage]

\* findAllTodos on a table of which `row` is one row: the query it sends to
\* the store and whether the store's answer contains `row`
FindAllTodosOn(user, query, clock, row) ==
    LET pg == BuildPaginationParams(query)
        where == BuildWhereConditions(user, query, clock)
        order == BuildOrderClause(query)
    IN  IF order.kind = "BadRequest"
        THEN [kind |-> "BadRequest", field |-> order.field, allowed |-> order.allowed,
              message |-> order.message, calls |-> <<>>]
        ELSE [kind |-> "ok", where |-> where, order |-> order, skip |-> pg.skip,
              take |-> pg.limit, page |-> pg.page, limit |-> pg.limit,
              found |-> MatchWhere(row, where), calls |-> <<"findAndCount">>]

FindAllTodos ==
    /\ listOut.kind = "none"
    /\ listIn.user # NoJwtUser
    /\ listOut' = FindAllTodosOn(listIn.user, listIn.query, listIn.now, listIn.todo)
    /\ UNCHANGED <<listIn, callIn, callOut, userVars, todoVars>>

\* the requests and rows the list query is tried on
JwtUsers == [id : UserIds, username : {"u"}, role : UserRole]
SearchTerms == {<<>>, <<"o">>, <<"_">>}
Queries ==
    [page : {None}, limit : {None},
     isDone : {None, Some("true"), Some("false")},
     search : {None} \cup {Some(t) : t \in SearchTerms},
     dateFrom : {None} \cup {Some(t) : t \in Times},
     dateTo : {None} \cup {Some(t) : t \in Times},
     sortBy : {None, Some("invalidField")}, sortOrder : {None}]
ProbeRows ==
    [id : {1}, title : Texts, description : Texts \cup {NullText}, isDone : BOOLEAN,
     ownerId : UserIds, createdAt : Times]

InitQuery ==
    /\ InitUsers /\ InitTodos /\ InitCall
    /\ listOut = NoListOut
    /\ listIn \in {x \in [user : JwtUsers, query : Queries, now : Times, todo : ProbeRows] :
                      x.todo.createdAt <= x.now}

SpecQuery == InitQuery /\ [][FindAllTodos]_vars

\* ------------------------------------------------- the guards tried alone
\* what the reflector may find on a route, the users a request may carry
\* (NoJwtUser: none), and the texts a route may hold as its id
RequiredRoles ==
    {None, Some(<<>>), Some(<<USER_ROLE>>), Some(<<ADMIN_ROLE>>),
     Some(<<USER_ROLE, ADMIN_ROLE>>), Some(<<ADMIN_ROLE, USER_ROLE>>)}
GuardUsers == JwtUsers \cup {NoJwtUser}
RouteParams == {"1", "2", "3", "1.0", "0", "-1", "1.5", "abc", ""}

RolesGuardCall ==
    /\ callIn.fn = "RolesGuard"
    /\ callOut = NoCallOut
    /\ callOut' = RolesGuardCanActivate(callIn.roles, callIn.user)
    /\ UNCHANGED <<callIn, listIn, listOut, userVars, todoVars>>

SelfOrAdminGuardCall ==
    /\ callIn.fn = "SelfOrAdminGuard"
    /\ callOut = NoCallOut
    /\ callOut' = SelfOrAdminGuardCanActivate(callIn.user, callIn.id)
    /\ UNCHANGED <<callIn, listIn, listOut, userVars, todoVars>>

InitGuards ==
    /\ InitUsers /\ InitTodos
    /\ listIn = NoListIn /\ listOut = NoListOut
    /\ callOut = NoCallOut
    /\ callIn \in [fn : {"RolesGuard"}, roles : RequiredRoles, user : GuardUsers]
                  \cup [fn : {"SelfOrAdminGuard"}, user : GuardUsers, id : RouteParams]

NextGuards == RolesGuardCall \/ SelfOrAdminGuardCall

SpecGuards == InitGuards /\ [][NextGuards]_vars

\* ------------------------------------------ pagination of the two list calls
\* the page and limit a caller may hand to findAllTodos and to users findAll:
\* absent, below the range, inside it, at its end and above it
Pages == {None, Some(-1), Some(0), Some(1), Some(3)}
Limits == {None, Some(-5), Some(0), Some(1), Some(5), Some(100), Some(101), Some(150)}
\* the totals the store may count
Totals == {0, 1, 5, 6, 25}

\* findAllTodos(user, query) as its caller sees it: the findAndCount it sends
\* and the pagination it reports
FindAllTodosCall ==
    /\ callIn.fn = "findAllTodos"
    /\ callOut = NoCallOut
    /\ LET query == [EmptyQuery EXCEPT !.page = callIn.page, !.limit = callIn.limit]
           r == FindAllTodosOn(callIn.user, query, 0, NoListIn.todo)
       IN  callOut' = [kind |-> r.kind, message |-> <<>>, skip |-> r.skip, take |-> r.take,
                       page |-> r.page, limit |-> r.limit,
                       pagination |-> BuildPaginationMetadata(r.page, r.limit, callIn.total)]
    /\ UNCHANGED <<callIn, listIn, listOut, userVars, todoVars>>

\* users findAll(query), likewise, the store counting callIn.total rows
FindAllCall ==
    /\ callIn.fn = "findAll"
    /\ callOut = NoCallOut
    /\ LET query == [page |-> callIn.page, limit |-> callIn.limit]
           q == FindAllParams(query)
           r == FindAll(query)
       IN  callOut' = [kind |-> "ok", message |-> <<>>, skip |-> q.skip, take |-> q.take,
                       page |-> r.pagination.page, limit |-> r.pagination.limit,
                       pagination |-> FindAllPagination(q.page, q.limit, callIn.total)]
    /\ UNCHANGED <<callIn, listIn, listOut, userVars, todoVars>>

InitPage ==
    /\ InitUsers /\ InitTodos
    /\ listIn = NoListIn /\ listOut = NoListOut
    /\ callOut = NoCallOut
    /\ callIn \in [fn : {"findAllTodos", "findAll"}, page : Pages, limit : Limits,
                    total : Totals,
                    user : {[id |-> 1, username |-> "u", role |-> USER_ROLE]}]

NextPage == FindAllTodosCall \/ FindAllCall

SpecPage == InitPage /\ [][NextPage]_vars

\* ------------------------------------------------ sorting of the todo list
\* the sortBy and sortOrder a caller may hand to findAllTodos
SortBys ==
    {None, Some(""), Some("id"), Some("title"), Some("isDone"), Some("createdAt"),
     Some("updatedAt"), Some("invalidField"), Some("ownerId")}
SortOrders == {None, Some("asc"), Some("desc"), Some("Desc")}

\* findAllTodos(user, query): the exception, or the order it sends to the store
FindAllTodosSorted ==
    /\ callIn.fn = "findAllTodos"
    /\ callOut = NoCallOut
    /\ LET query == [EmptyQuery EXCEPT !.sortBy = callIn.sortBy,
                                       !.sortOrder = callIn.sortOrder]
           r == FindAllTodosOn(callIn.user, query, 0, NoListIn.todo)
       IN  callOut' = IF r.kind = "BadRequest"
                      THEN [kind |-> r.kind, message |-> r.message, calls |-> r.calls]
                      ELSE [kind |-> r.kind, message |-> <<>>, calls |-> r.calls,
                            order |-> [field |-> r.order.field,
                                       direction |-> r.order.direction]]
    /\ UNCHANGED <<callIn, listIn, listOut, userVars, todoVars>>

InitSort ==
    /\ InitUsers /\ InitTodos
    /\ listIn = NoListIn /\ listOut = NoListOut
    /\ callOut = NoCallOut
    /\ callIn \in [fn : {"findAllTodos"}, sortBy : SortBys, sortOrder : SortOrders,
                    user : JwtUsers]

SpecSort == InitSort /\ [][FindAllTodosSorted]_vars

\* --------------------------------------------- TodosService, single-todo requests
\* an access check that never looks at the owner
AssertCanAccess_NoOwnerCheck(todo, user) ==
    IF user.role = "admin" THEN "ok" ELSE "ok"

\* assertCanAccess: "ok", or the kind of the exception it throws
AssertCanAccess(todo, user) ==
    IF user.role = "admin" THEN "ok"
    ELSE IF todo.ownerId # user.id THEN "Forbidden"
    ELSE "ok"

\* what a call gave, and the todoRepository calls it issued, in order
TodoOutcome(op, id, user, kind, todo, calls) ==
    [op |-> op, id |-> id, user |-> user, kind |-> kind, todo |-> todo, calls |-> calls,
     deleted |-> (op = "remove" /\ kind = "ok")]

\* a createTodo that lets the body name the owner
CreateTodo_ClientOwner(owner, dto) ==
    /\ todoSeq < MaxTodos
    /\ LET todo == [id |-> todoSeq + 1, title |-> dto.title,
                    description |-> OrElse(dto.description, NullText),
                    isDone |-> OrElse(dto.isDone, FALSE),
                    ownerId |-> IF "ownerId" \in DOMAIN dto THEN OrElse(dto.ownerId, owner.id)
                                ELSE owner.id]
       IN  /\ todos' = [todos EXCEPT ![todo.id] = todo]
           /\ todoSeq' = todo.id
           /\ todoRes' = TodoOutcome("create", todo.id, owner, "ok", todo, <<"save">>)
    /\ UNCHANGED <<userVars, listVars>>

\* POST /todos
CreateTodo(owner, dto) ==
    /\ todoSeq < MaxTodos
    /\ LET todo == [id |-> todoSeq + 1, title |-> dto.title,
                    description |-> OrElse(dto.description, NullText),
                    isDone |-> OrElse(dto.isDone, FALSE), ownerId |-> owner.id]
       IN  /\ todos' = [todos EXCEPT ![todo.id] = todo]
           /\ todoSeq' = todo.id
           /\ todoRes' = TodoOutcome("create", todo.id, owner, "ok", todo, <<"save">>)
    /\ UNCHANGED <<userVars, listVars>>

\* GET /todos/:id
FindOneTodo(id, user) ==
    /\ LET todo == todos[id]
           kind == IF todo = NoTodo THEN "NotFound" ELSE AssertCanAccess(todo, user)
       IN  todoRes' = TodoOutcome("findOne", id, user, kind, todo, <<"findOne">>)
    /\ UNCHANGED <<todos, todoSeq, userVars, listVars>>

\* an assignment that resets the properties the dto leaves out
ObjectAssign_Replace(todo, dto) ==
    [todo EXCEPT !.title = OrElse(dto.title, @),
                 !.description = OrElse(dto.description, NullText),
                 !.isDone = OrElse(dto.isDone, FALSE)]

\* Object.assign(todo, dto): the properties the dto has are copied
ObjectAssign(todo, dto) ==
    [todo EXCEPT !.title = OrElse(dto.title, @),
                 !.description = OrElse(dto.description, @),
                 !.isDone = OrElse(dto.isDone, @)]

\* PATCH /todos/:id
UpdateTodo(id, user, dto) ==
    /\ LET todo == todos[id]
           kind == IF todo = NoTodo THEN "NotFound" ELSE AssertCanAccess(todo, user)
       IN  IF kind # "ok"
           THEN /\ todoRes' = TodoOutcome("update", id, user, kind, todo, <<"findOne">>)
                /\ UNCHANGED todos
           ELSE /\ todos' = [todos EXCEPT ![id] = ObjectAssign(todo, dto)]
                /\ todoRes' = TodoOutcome("update", id, user, "ok", ObjectAssign(todo, dto),
                                          <<"findOne", "save">>)
    /\ UNCHANGED <<todoSeq, userVars, listVars>>

\* a removeTodo that removes every row of the row's owner
RemoveTodo_OwnerRows(id, user) ==
    /\ LET todo == todos[id]
           kind == IF todo = NoTodo THEN "NotFound" ELSE AssertCanAccess(todo, user)
       IN  /\ todoRes' = TodoOutcome("remove", id, user, kind, todo,
                                     IF kind = "ok" THEN <<"findOne", "remove">>
                                     ELSE <<"findOne">>)
           /\ todos' = IF kind = "ok"
                       THEN [i \in TodoIds |-> IF todos[i].ownerId = todo.ownerId THEN NoTodo
                                               ELSE todos[i]]
                       ELSE todos
    /\ UNCHANGED <<todoSeq, userVars, listVars>>

\* a removeTodo that asks for permission only after the remove
RemoveTodo_CheckAfterRemove(id, user) ==
    /\ LET todo == todos[id]
           kind == IF todo = NoTodo THEN "NotFound" ELSE AssertCanAccess(todo, user)
       IN  /\ todoRes' = TodoOutcome("remove", id, user, kind, todo,
                                     IF kind = "NotFound" THEN <<"findOne">>
                                     ELSE <<"findOne", "remove">>)
           /\ todos' = IF kind # "NotFound" THEN [todos EXCEPT ![id] = NoTodo] ELSE todos
    /\ UNCHANGED <<todoSeq, userVars, listVars>>

\* DELETE /todos/:id
RemoveTodo(id, user) ==
    /\ LET todo == todos[id]
           kind == IF todo = NoTodo THEN "NotFound" ELSE AssertCanAccess(todo, user)
       IN  /\ todoRes' = TodoOutcome("remove", id, user, kind, todo,
                                     IF kind = "ok" THEN <<"findOne", "remove">>
                                     ELSE <<"findOne">>)
           /\ todos' = IF kind = "ok" THEN [todos EXCEPT ![id] = NoTodo] ELSE todos
    /\ UNCHANGED <<todoSeq, userVars, listVars>>

\* the bodies the single-todo requests are tried with
CreateTodoDtos == {[title |-> <<"f", "o", "o">>, description |-> None, isDone |-> None]}
UpdateTodoDtos == {[title |-> Some(<<"b", "a", "r">>), description |-> None, isDone |-> Some(TRUE)]}

NextTodos ==
    \/ \E u \in JwtUsers, dto \in CreateTodoDtos : CreateTodo(u, dto)
    \/ \E id \in TodoIds, u \in JwtUsers : FindOneTodo(id, u)
    \/ \E id \in TodoIds, u \in JwtUsers, dto \in UpdateTodoDtos : UpdateTodo(id, u, dto)
    \/ \E id \in TodoIds, u \in JwtUsers : RemoveTodo(id, u)

SpecTodos == Init /\ [][NextTodos]_vars

\* the bodies createTodo and updateTodo are tried with when the claim is about
\* the fields: a description and a status given or left out, and on create an
\* ownerId the client sent along
CreateTodoBodies ==
    [title : {<<"f", "o", "o">>}, description : {None, Some(<<"b", "a", "r">>)},
     isDone : {None, Some(TRUE), Some(FALSE)}, ownerId : {None, Some(MaxUsers)}]
UpdateTodoBodies ==
    [title : {None, Some(<<"b", "a", "r">>)}, description : {None, Some(<<"f", "o", "o">>)},
     isDone : {None, Some(TRUE), Some(FALSE)}]

\* the rows createTodo leaves in the table
CreatedTodos(id) ==
    [id : {id}, title : {<<"f", "o", "o">>}, description : {NullText, <<"b", "a", "r">>},
     isDone : BOOLEAN, ownerId : UserIds]

\* a table after some creates and removes: the first row is any created row or
\* was removed, each later row is one plain row of user 1
TodoTables ==
    {t \in [TodoIds -> {NoTodo} \cup UNION {CreatedTodos(i) : i \in TodoIds}] :
        /\ t[1] \in {NoTodo} \cup CreatedTodos(1)
        /\ \A i \in TodoIds \ {1} :
              t[i] \in {NoTodo, [id |-> i, title |-> <<"f", "o", "o">>, description |-> NullText,
                                isDone |-> FALSE, ownerId |-> 1]}
        /\ \A i, j \in TodoIds : (i < j /\ t[i] = NoTodo /\ i # 1) => t[j] = NoTodo}

\* one createTodo(owner, dto) on the drawn table
CreateTodoCall ==
    /\ callIn.fn = "createTodo"
    /\ todoRes = NoTodoRes
    /\ CreateTodo(callIn.user, callIn.dto)

\* one updateTodo(id, user, dto) on the drawn table
UpdateTodoCall ==
    /\ callIn.fn = "updateTodo"
    /\ todoRes = NoTodoRes
    /\ UpdateTodo(callIn.id, callIn.user, callIn.dto)

InitTodoBodies ==
    /\ InitUsers
    /\ listIn = NoListIn /\ listOut = NoListOut
    /\ callOut = NoCallOut
    /\ todoRes = NoTodoRes
    /\ todos \in TodoTables
    /\ todoSeq \in {n \in 0..MaxTodos : \A i \in TodoIds : todos[i] # NoTodo => i <= n}
    /\ callIn \in [fn : {"createTodo"}, id : {0}, user : JwtUsers, dto : CreateTodoBodies]
                   \cup [fn : {"updateTodo"}, id : TodoIds, user : JwtUsers,
                         dto : UpdateTodoBodies]

NextTodoBodies == CreateTodoCall \/ UpdateTodoCall

SpecTodoBodies == InitTodoBodies /\ [][NextTodoBodies]_vars

\* ===================================================================== claims

\* C1 (under Spec): the table never has zero admins, and an updateRole call
\* that asks to downgrade an admin while exactly one admin is stored ends with
\* an error (Conflict from the guard, or the error of a store call that failed
\* before the guard) and leaves the stored roles as they were.
C1_LastAdminInvariant ==
    /\ AdminCount >= 1
    /\ \A p \in Procs :
         LET r == proc[p]
         IN  (/\ r.op = "updateRole" /\ r.pc = "done"
              /\ r.pre[r.id] = ADMIN_ROLE /\ r.dto # ADMIN_ROLE
              /\ Cardinality({i \in UserIds : r.pre[i] = ADMIN_ROLE}) = 1)
             => r.err \in {"Conflict", "DbError"} /\ RoleSnapshot = r.pre

\* C2 (under SpecConc): two overlapping updateRole calls that downgrade the two
\* admins never both commit their write, and the table never has zero admins.
C2_ConcurrentDowngradesSerialize ==
    /\ AdminCount >= 1
    /\ ~ \E p, q \in Procs :
           /\ p # q /\ proc[p].id # proc[q].id
           /\ \A x \in {p, q} :
                /\ proc[x].op = "updateRole" /\ proc[x].dto # ADMIN_ROLE
                /\ proc[x].adminCount = 2 /\ proc[x].nCommit = 1

\* C3 (under SpecQuery): the where-clause findAllTodos builds for a requester
\* who is not an admin matches only rows whose ownerId is the requester's id;
\* the one built for an admin has no condition on ownerId.
C3_OwnershipScoping ==
    listOut.kind = "ok" =>
        IF listIn.user.role # ADMIN_ROLE
        THEN listOut.found => listIn.todo.ownerId = listIn.user.id
        ELSE \A i \in 1..Len(listOut.where.clauses) :
                 "ownerId" \notin DOMAIN listOut.where.clauses[i]

C5_CacheCoherenceAfterCommit ==
    [][\A p \in Procs :
         LET r == proc[p]
             n == proc'[p]
         IN  (r.op = "updateRole" /\ r.pc = "done" /\ r.err = "none") =>
                 /\ cache[r.id] # 0
                 /\ heap[cache[r.id]].role = r.dto
                 /\ (n.op = "findById" /\ n.id = r.id) =>
                        /\ n.pc = "done" /\ n.err = "none" /\ n.nRead = 0
                        /\ heap'[n.ret].role = r.dto]_vars

C5_Witness ==
    \E p \in Procs :
        /\ proc[p].op = "findById" /\ proc[p].pc = "done" /\ proc[p].id = 2
        /\ proc[p].hit = "hit" /\ proc[p].nRead = 0
        /\ heap[proc[p].ret].role = ADMIN_ROLE /\ users[2].role = ADMIN_ROLE

\* C6 (under Spec): a findById call whose id is in the cache returns the cached
\* Account and reads nothing from the store; otherwise it reads the store once,
\* and then either puts the Account it found in the cache and returns it, or
\* fails (NotFound when the store has no such Account) and leaves the cache as
\* it was.
C6_ReadThroughCache ==
    [][\A p \in Procs :
         LET r == proc[p]
             n == proc'[p]
         IN  /\ (Free(p) /\ n # r /\ n.op = "findById") =>
                    IF cache[n.id] # 0
                    THEN /\ n.pc = "done" /\ n.err = "none" /\ n.nRead = 0
                         /\ n.ret = cache[n.id] /\ cache' = cache
                    ELSE n.pc = "findOne" /\ n.nRead = 0 /\ cache' = cache
             /\ (r.op = "findById" /\ r.pc = "findOne" /\ n.pc = "done") =>
                    /\ n.nRead = 1
                    /\ IF r.io = "ok" /\ users[r.id] # NoUser
                       THEN /\ n.err = "none" /\ n.ret # 0
                            /\ cache'[r.id] = n.ret /\ heap'[n.ret] = users[r.id]
                       ELSE /\ n.err = (IF r.io = "ok" THEN "NotFound" ELSE "DbError")
                            /\ n.ret = 0 /\ cache' = cache]_vars

C6_Witness ==
    \E p \in Procs :
        /\ proc[p].op = "findById" /\ proc[p].pc = "done" /\ proc[p].err = "none"
        /\ proc[p].hit = "miss" /\ proc[p].nRead = 1
        /\ cache[proc[p].id] = proc[p].ret /\ heap[proc[p].ret] = users[proc[p].id]

\* C7 (under Spec): an updateRole call that fails after its transaction started
\* has rolled back once before it releases the query runner and throws, has
\* committed nothing, throws the error of the step that failed, and leaves every
\* stored role as it was before the call; a call that succeeds has committed
\* once and never rolled back; either way the query runner is released once.
C7_UpdateRoleFailurePath ==
    \A p \in Procs :
        LET r == proc[p]
        IN  /\ (r.op = "updateRole" /\ r.pc \in {"release", "done"}) =>
                   IF r.err # "none"
                   THEN /\ r.nRollback = 1 /\ r.nCommit = 0 /\ r.txWrite = "none"
                        /\ RoleSnapshot = r.pre
                        /\ r.err = "NotFound" => r.pre[r.id] = "none"
                        /\ r.err = "Conflict" => r.loadedRole = ADMIN_ROLE /\ r.adminCount <= 1
                   ELSE r.nCommit = 1 /\ r.nRollback = 0
            /\ (r.op = "updateRole" /\ r.pc = "release") => r.nRelease = 0
            /\ (r.op = "updateRole" /\ r.pc = "done") => r.nRelease = 1

C7_Witness ==
    \E p \in Procs :
        /\ proc[p].op = "updateRole" /\ proc[p].pc = "done" /\ proc[p].err = "DbError"
        /\ proc[p].nRollback = 1 /\ proc[p].nRelease = 1 /\ proc[p].user # 0
        /\ proc[p].dto # proc[p].pre[proc[p].id] /\ RoleSnapshot = proc[p].pre

C9_RolesChangeOnlyByAdmin ==
    [][\A i \in UserIds :
         users'[i].role # users[i].role =>
             \/ /\ users[i] = NoUser /\ users'[i].role = USER_ROLE
                /\ \E p \in Procs : proc'[p].op = "register"
             \/ \E p \in Procs :
                    /\ proc[p].op = "updateRole" /\ proc[p].pc = "commit" /\ proc[p].id = i
                    /\ proc[p].by.role = ADMIN_ROLE /\ users'[i].role = proc[p].dto]_vars

C9_Witness ==
    \E p \in Procs :
        /\ proc[p].op = "updateRole" /\ proc[p].pc = "commit" /\ proc[p].io = "ok"
        /\ proc[p].by.role = ADMIN_ROLE /\ proc[p].id = 2 /\ proc[p].pre[2] = USER_ROLE
        /\ users[2].role = ADMIN_ROLE
        /\ \E tok \in tokens : tok.role = ADMIN_ROLE

\* C10 (under SpecTodos): on a Task that exists, findOneTodo, updateTodo and
\* removeTodo let the requester through exactly when the requester's role is
\* admin or the Task's ownerId is the requester's id, and fail with Forbidden
\* otherwise.
C10_OwnershipCheck ==
    (todoRes.op \in {"findOne", "update", "remove"} /\ todoRes.kind # "NotFound") =>
        /\ todoRes.kind \in {"ok", "Forbidden"}
        /\ todoRes.kind = "ok" <=>
               (todoRes.user.role = ADMIN_ROLE \/ todoRes.todo.ownerId = todoRes.user.id)

C10_Witness ==
    /\ todoRes.op = "update" /\ todoRes.kind = "Forbidden"
    /\ todoRes.user.role = USER_ROLE /\ todoRes.todo.ownerId # todoRes.user.id
    /\ todos[todoRes.id] = todoRes.todo

\* C11 (under SpecTodos): findOneTodo, updateTodo and removeTodo on an id that
\* no Task has fail with NotFound whoever asks; on a Task that exists, asked by
\* someone who is neither admin nor its owner, they fail with Forbidden; in
\* both cases the only repository call is the findOne and the table is as it
\* was.
C11_ExistenceBeforePermission ==
    [][todoRes'.op \in {"findOne", "update", "remove"} =>
         LET u == todoRes'.user
             t == todos[todoRes'.id]
             denied == u.role # ADMIN_ROLE /\ t.ownerId # u.id
         IN  /\ t = NoTodo =>
                    /\ todoRes'.kind = "NotFound"
                    /\ todoRes'.calls = <<"findOne">> /\ todos' = todos
             /\ (t # NoTodo /\ denied) =>
                    /\ todoRes'.kind = "Forbidden"
                    /\ todoRes'.calls = <<"findOne">> /\ todos' = todos
             /\ (t # NoTodo /\ ~denied) => todoRes'.kind = "ok"]_vars

C11_Witness ==
    /\ todoRes.op = "remove" /\ todoRes.kind = "Forbidden" /\ todoRes.calls = <<"findOne">>
    /\ todoRes.todo # NoTodo /\ todos[todoRes.id] = todoRes.todo

\* C12 (under Spec): a login that failed was answered as every other failing
\* identifier and secret would be on the same accounts, whether the identifier
\* matches no Account or the secret is wrong: same status, same message.
C12_VerificationFailureUniform ==
    \A p \in Procs :
        (proc[p].op = "login" /\ proc[p].pc = "done" /\ proc[p].err # "none") =>
            \A x \in LoginNames, pw \in LoginPasswords :
                LET v == ValidateUser(x, pw)
                IN  v.kind # "none" =>
                        HttpExceptionFilter(v.kind, v.message)
                            = HttpExceptionFilter(proc[p].err, proc[p].msg)

\* C13: no response of register, GET /users, GET /users/:id or
\* PATCH /users/:id/role carries an Account's password hash: every Account
\* value sent to the client lacks the password field.
C13_PasswordHashNeverLeaves ==
    \A p \in SeqProcs : \A a \in AccountsSent(p) : "password" \notin DOMAIN a

C15_EmailUniqueness ==
    [][ /\ \A p \in SeqProcs : \A u \in Usernames, e \in Emails, pw \in Passwords :
              /\ Free(p) /\ proc'[p].op = "register"
              /\ FindByUsername(u) = {} /\ FindByEmail(e) # {}
              /\ CreateUser(p, u, e, pw)
              =>
                  /\ users' = users
                  /\ HttpExceptionFilter(proc'[p].err, proc'[p].msg) =
                         [status |-> 409, message |-> "Username or email already exists"]
        /\ \A i, j \in UserIds :
              users'[i] # NoUser /\ users'[j] # NoUser /\ users'[i].email = users'[j].email
                  => i = j
      ]_vars

\* C16: a login looks the Account up exactly once, by username or email.  With
\* no match it fails Unauthorized and the secret is never compared; with a
\* match whose comparison fails it fails Unauthorized; in both cases no token
\* is signed.  When the comparison succeeds, and only then, a token is signed,
\* after the comparison, for the Account that was found.  Nothing but a
\* successful login issues a token.
C16_TokenOnlyAfterVerification ==
    [][ /\ \A p \in SeqProcs : \A x \in LoginNames, pw \in LoginPasswords :
              Free(p) /\ proc'[p].op = "login" /\ ProcessLogin(p, x, pw) =>
                  LET r == proc'[p]
                      found == FindByUsernameOrEmail(x)
                      match == {i \in found : BcryptCompare(pw, users[i].password)}
                  IN  /\ Cardinality({k \in 1..Len(r.calls) :
                                         r.calls[k] = "findByUsernameOrEmail"}) = 1
                      /\ r.calls[1] = "findByUsernameOrEmail"
                      /\ IF found = {}
                         THEN /\ r.err = "Unauthorized"
                              /\ r.calls = <<"findByUsernameOrEmail">>
                              /\ tokens' = tokens
                         ELSE IF match = {}
                         THEN /\ r.err = "Unauthorized"
                              /\ r.calls = <<"findByUsernameOrEmail", "bcrypt.compare">>
                              /\ tokens' = tokens
                         ELSE /\ r.err = "none"
                              /\ r.calls = <<"findByUsernameOrEmail", "bcrypt.compare", "jwt.sign">>
                              /\ \E i \in match : r.body.access_token = LoginPayload(users[i])
                              /\ tokens' = tokens \cup {r.body.access_token}
        /\ tokens' # tokens =>
              \E p \in SeqProcs : /\ proc'[p].op = "login" /\ proc'[p].err = "none"
                                   /\ proc'[p].calls[3] = "jwt.sign"
      ]_vars

\* a login with the wrong secret for an existing Account has just failed,
\* and no token exists
C16_Witness ==
    /\ proc["p1"].pc = "done" /\ proc["p1"].op = "login"
    /\ proc["p1"].err = "Unauthorized"
    /\ proc["p1"].calls = <<"findByUsernameOrEmail", "bcrypt.compare">>
    /\ tokens = {}

\* C17: a successful login signs exactly {sub, username, role} of the Account
\* it verified, and the identity JwtStrategy.validate makes of that payload is
\* the (id, username, role) the Account has at that login; the identity
\* attached to an authenticated request is the one made of an issued token.
C17_ClaimsRoundTrip ==
    [][ /\ \A p \in SeqProcs : \A x \in LoginNames, pw \in LoginPasswords :
              /\ Free(p) /\ proc'[p].op = "login" /\ proc'[p].err = "none"
              /\ ProcessLogin(p, x, pw)
              =>
                  \E i \in FindByUsernameOrEmail(x) :
                      /\ proc'[p].body.access_token =
                             [sub |-> users[i].id, username |-> users[i].username,
                              role |-> users[i].role]
                      /\ JwtStrategyValidate(proc'[p].body.access_token) =
                             [id |-> users[i].id, username |-> users[i].username,
                              role |-> users[i].role]
        /\ \A p \in SeqProcs :
              Free(p) /\ proc'[p].op \in {"findById", "updateRole"} /\ proc'[p] # proc[p] =>
                  \E tok \in tokens :
                      proc'[p].by = [id |-> tok.sub, username |-> tok.username,
                                     role |-> tok.role]
      ]_vars

\* a request authenticated with the admin's token has been served
C17_Witness ==
    /\ proc["p1"].pc = "done" /\ proc["p1"].op = "findById" /\ proc["p1"].err = "none"
    /\ proc["p1"].by = [id |-> 1, username |-> "admin", role |-> ADMIN_ROLE]
    /\ LoginPayload(users[1]) \in tokens

\* C18: on a route with no required roles (no metadata, or an empty list)
\* RolesGuard grants whatever the request carries, a user or none; otherwise a
\* request without a user is refused with Forbidden 'User not authenticated',
\* and a user is granted exactly when, for some required role, the rank of the
\* user's role (user 1, admin 2) is at least the rank of the required one, and
\* refused with Forbidden if not.  So an admin passes a user-only route and a
\* user is refused on an admin-only route.
C18_RoleGatedRoutes ==
    (callIn.fn = "RolesGuard" /\ callOut # NoCallOut) =>
        LET rank == [r \in UserRole |-> IF r = "admin" THEN 2 ELSE 1]
            roles == IF callIn.roles = None THEN <<>> ELSE callIn.roles[1]
            user == callIn.user
        IN  /\ roles = <<>> => callOut.kind = "grant"
            /\ roles # <<>> /\ user = NoJwtUser =>
                   callOut.kind = "Forbidden" /\ callOut.message = <<"User not authenticated">>
            /\ roles # <<>> /\ user # NoJwtUser =>
                   /\ callOut.kind \in {"grant", "Forbidden"}
                   /\ callOut.kind = "grant" <=>
                          \E i \in 1..Len(roles) : rank[user.role] >= rank[roles[i]]
            /\ roles = <<"user">> /\ user # NoJwtUser /\ user.role = "admin" =>
                   callOut.kind = "grant"
            /\ roles = <<"admin">> /\ user # NoJwtUser /\ user.role = "user" =>
                   callOut.kind = "Forbidden"

\* the guard has granted a request without a user on a route whose roles list is empty
C18_Witness ==
    /\ callIn.fn = "RolesGuard" /\ callIn.roles = Some(<<>>) /\ callIn.user = NoJwtUser
    /\ callOut.kind = "grant"

\* C19: SelfOrAdminGuard refuses a request without a user with Forbidden
\* 'User not authenticated' whatever the route id; with a user, a route id that
\* is not a positive integer (not a number, zero or below, fractional) gives
\* BadRequest, for an admin too; otherwise it grants exactly when the user is
\* an admin or the user's id is the numeric route id, and refuses the rest with
\* Forbidden 'Access denied. You can only access your own resources.'.
C19_SelfOrAdminGuard ==
    (callIn.fn = "SelfOrAdminGuard" /\ callOut # NoCallOut) =>
        LET user == callIn.user
            positive == {<<"1", 1>>, <<"2", 2>>, <<"3", 3>>, <<"1.0", 1>>}
            valid == \E v \in positive : v[1] = callIn.id
            n == (CHOOSE v \in positive : v[1] = callIn.id)[2]
        IN  IF user = NoJwtUser
            THEN callOut = [kind |-> "Forbidden", message |-> <<"User not authenticated">>]
            ELSE IF ~valid
            THEN callOut.kind = "BadRequest"
            ELSE IF user.role = "admin" \/ user.id = n
            THEN callOut.kind = "grant"
            ELSE callOut = [kind |-> "Forbidden",
                            message |-> <<"Access denied. You can only access your own resources.">>]

\* an admin's request with a fractional route id has been refused with BadRequest
C19_Witness ==
    /\ callIn.fn = "SelfOrAdminGuard" /\ callIn.id = "1.5"
    /\ callIn.user # NoJwtUser /\ callIn.user.role = ADMIN_ROLE
    /\ callOut.kind = "BadRequest"

C21_PaginationMetadata ==
    (callIn.fn \in {"findAllTodos", "findAll"} /\ callOut # NoCallOut) =>
        LET m == callOut.pagination
            total == callIn.total
        IN  /\ m.page = callOut.page /\ m.limit = callOut.limit /\ m.total = total
            /\ m.totalPages >= 0
            /\ m.totalPages * m.limit >= total
            /\ m.totalPages > 0 => (m.totalPages - 1) * m.limit < total
            /\ m.hasNextPage <=> m.page < m.totalPages
            /\ m.hasPrevPage <=> m.page > 1
            /\ total = 25 /\ m.limit = 5 /\ m.page = 3 =>
                   m.totalPages = 5 /\ m.hasNextPage /\ m.hasPrevPage
            /\ m.page = 1 /\ total <= m.limit => ~m.hasNextPage /\ ~m.hasPrevPage

\* users findAll reported 25 rows, 5 a page, on page 3
C21_Witness ==
    /\ callIn.fn = "findAll" /\ callIn.total = 25
    /\ callIn.page = Some(3) /\ callIn.limit = Some(5)
    /\ callOut.kind = "ok" /\ callOut.pagination.totalPages = 5
    /\ callOut.pagination.hasNextPage /\ callOut.pagination.hasPrevPage

\* C22: findAllTodos given a sortBy outside id, title, isDone, createdAt,
\* updatedAt fails with BadRequest, its message naming that field and listing
\* exactly those five, and sends nothing to the store; given neither sortBy
\* nor sortOrder it orders by createdAt DESC; otherwise it orders by the given
\* field (createdAt when none is given) in the given direction upper-cased
\* (DESC when none is given).
C22_SortAllowList ==
    (callIn.fn = "findAllTodos" /\ "sortBy" \in DOMAIN callIn /\ callOut # NoCallOut) =>
        LET five == {"id", "title", "isDone", "createdAt", "updatedAt"}
            byGiven == callIn.sortBy # None /\ callIn.sortBy[1] # ""
            orderGiven == callIn.sortOrder # None
            upper == [o \in {"asc", "desc", "Desc"} |-> IF o = "asc" THEN "ASC" ELSE "DESC"]
        IN  IF byGiven /\ callIn.sortBy[1] \notin five
            THEN /\ callOut.kind = "BadRequest"
                 /\ callOut.message =
                        <<"Invalid sort field: ", callIn.sortBy[1], ". Allowed fields: ",
                          "id", ", ", "title", ", ", "isDone", ", ", "createdAt", ", ",
                          "updatedAt">>
                 /\ callOut.calls = <<>>
            ELSE /\ callOut.kind = "ok"
                 /\ callOut.calls = <<"findAndCount">>
                 /\ callOut.order.field = IF byGiven THEN callIn.sortBy[1] ELSE "createdAt"
                 /\ callOut.order.direction =
                        IF orderGiven THEN upper[callIn.sortOrder[1]] ELSE "DESC"

\* a list sorted by an unknown field has been refused without a store query
C22_Witness ==
    /\ callIn.fn = "findAllTodos" /\ "sortBy" \in DOMAIN callIn
    /\ callIn.sortBy = Some("invalidField")
    /\ callOut.kind = "BadRequest" /\ callOut.calls = <<>>

\* C23: the creation-time condition findAllTodos sends is the inclusive range
\* [lower, upper]: [dateFrom, dateTo] when both are given, [dateFrom, now]
\* with only dateFrom, [epoch, dateTo] with only dateTo; with neither bound
\* the query has no creation-time condition.  Where it is the only condition
\* (an admin, no status, no search) the row is found exactly when its
\* creation time lies in the range, ends included.
C23_DateRangeDefaults ==
    listOut.kind = "ok" =>
        LET q == listIn.query
            given == q.dateFrom # None \/ q.dateTo # None
            lower == IF q.dateFrom # None THEN q.dateFrom[1] ELSE 0
            upper == IF q.dateTo # None THEN q.dateTo[1] ELSE listIn.now
            cl == listOut.where.clauses
            alone == /\ listIn.user.role = ADMIN_ROLE /\ q.isDone = None
                     /\ (q.search = None \/ q.search[1] = <<>>)
        IN  /\ \A i \in 1..Len(cl) :
                   "createdAt" \in DOMAIN cl[i] =>
                       given /\ cl[i].createdAt = [op |-> "between", from |-> lower, to |-> upper]
            /\ given => \E i \in 1..Len(cl) : "createdAt" \in DOMAIN cl[i]
            /\ alone => (listOut.found <=>
                            (~given \/ (lower <= listIn.todo.createdAt
                                        /\ listIn.todo.createdAt <= upper)))

\* an admin listed with only dateFrom and found a row created at the current time
C23_Witness ==
    /\ listOut.kind = "ok" /\ listIn.user.role = ADMIN_ROLE
    /\ listIn.query.dateFrom # None /\ listIn.query.dateTo = None
    /\ listIn.query.isDone = None /\ listIn.query.search = None
    /\ listIn.todo.createdAt = listIn.now /\ listOut.found

\* C24 (under SpecTodoBodies): after createTodo(owner, dto) the stored row, and
\* the row returned, has ownerId = owner.id whatever ownerId the body carried,
\* isDone = dto.isDone when given and false otherwise, the title of the dto,
\* and the description of the dto (NULL when the dto has none).
C24_TaskCreation ==
    todoRes.op = "create" =>
        LET dto == callIn.dto
            todo == todos[todoRes.id]
        IN  /\ todoRes.kind = "ok"
            /\ todoRes.todo = todo
            /\ todo.ownerId = callIn.user.id
            /\ todo.isDone = (IF dto.isDone = None THEN FALSE ELSE dto.isDone[1])
            /\ todo.title = dto.title
            /\ todo.description = (IF dto.description = None THEN NullText
                                   ELSE dto.description[1])

C24_Witness ==
    /\ todoRes.op = "create"
    /\ callIn.dto.ownerId # None /\ callIn.dto.ownerId[1] # callIn.user.id
    /\ callIn.dto.isDone = None
    /\ todos[todoRes.id].ownerId = callIn.user.id
    /\ ~todos[todoRes.id].isDone

C26_PermanentDelete ==
    [][\A id \in TodoIds :
         /\ \A u \in JwtUsers :
               (/\ todos[id] # NoTodo
                /\ (u.role = ADMIN_ROLE \/ todos[id].ownerId = u.id)
                /\ todoRes'.id = id /\ todoRes'.user = u
                /\ RemoveTodo(id, u))
               => /\ todoRes'.kind = "ok" /\ todoRes'.deleted
                  /\ todos'[id] = NoTodo
                  /\ \A j \in TodoIds \ {id} : todos'[j] = todos[j]
         /\ (id <= todoSeq /\ todos[id] = NoTodo)
               => /\ todos'[id] = NoTodo
                  /\ \A u \in JwtUsers :
                        (/\ todoRes'.id = id /\ todoRes'.user = u
                         /\ \/ FindOneTodo(id, u) \/ RemoveTodo(id, u)
                            \/ \E dto \in UpdateTodoDtos : UpdateTodo(id, u, dto))
                        => todoRes'.kind = "NotFound" /\ todos' = todos]_vars

C26_Witness ==
    /\ todoRes.op = "update" /\ todoRes.kind = "NotFound"
    /\ todoRes.id <= todoSeq /\ todos[todoRes.id] = NoTodo
    /\ \E j \in TodoIds : todos[j] # NoTodo

\* C27 (under Spec): whatever updateRole calls failed at a store call and were
\* rolled back before it, an updateRole call whose own store calls succeed and
\* that asks to downgrade the only Account stored as admin ends with Conflict
\* and leaves the stored roles as they were; and the table never has zero
\* admins.
C27_GuardSeesStoredRole ==
    /\ AdminCount >= 1
    /\ \A p \in Procs :
         LET r == proc[p]
         IN  (/\ r.op = "updateRole" /\ r.pc = "done" /\ r.err # "DbError"
              /\ r.pre[r.id] = ADMIN_ROLE /\ r.dto # ADMIN_ROLE
              /\ Cardinality({i \in UserIds : r.pre[i] = ADMIN_ROLE}) = 1)
             => r.err = "Conflict" /\ RoleSnapshot = r.pre

\* C28 (under Spec): in every state in which no updateRole call is under way,
\* each Account held in the cache has the role that Account has in the
\* store; so an updateRole call that failed and was rolled back has left the
\* cached role of its target as it was.
C28_CacheAgreesAtRest ==
    (\A p \in Procs : proc[p].op = "updateRole" => proc[p].pc = "done") =>
        \A i \in UserIds :
            cache[i] # 0 => heap[cache[i]].role = users[i].role

\* C29 (under SpecConc): when a findById(id) that missed the cache and an
\* updateRole(id, newRole) that committed have both returned, in whatever
\* order their steps were taken, the cache entry of id is an Account with
\* role newRole.
C29_NoStaleOverwrite ==
    \A p, q \in Procs :
        (/\ proc[p].op = "findById" /\ proc[p].pc = "done" /\ proc[p].err = "none"
         /\ proc[p].hit = "miss"
         /\ proc[q].op = "updateRole" /\ proc[q].pc = "done" /\ proc[q].err = "none"
         /\ proc[q].id = proc[p].id)
        => /\ cache[proc[p].id] # 0
           /\ heap[cache[proc[p].id]].role = proc[q].dto

\* C30 (under Spec): the state before and the state after a step that changes
\* the stored role of an Account are two runs that agree on every issued
\* token and differ in the stored role; for each token of that Account and
\* each target, the role gate of every route, the self-or-admin guard on
\* every route id, assertCanAccess on a Task of every owner and the owner
\* condition of the list query decide the same in both.
C30_DecisionsDependOnClaimsOnly ==
    [][\A tok \in tokens :
         users'[tok.sub].role # users[tok.sub].role =>
             /\ \A roles \in {<<>>, <<ADMIN_ROLE>>, <<USER_ROLE>>} :
                   Auth(roles, tok)' = Auth(roles, tok)
             /\ \A id \in RouteParams :
                   SelfOrAdminGuardCanActivate(JwtAuthGuard(tok), id)'
                       = SelfOrAdminGuardCanActivate(JwtAuthGuard(tok), id)
             /\ \A owner \in UserIds :
                   AssertCanAccess([NoTodo EXCEPT !.id = 1, !.ownerId = owner], JwtAuthGuard(tok))'
                       = AssertCanAccess([NoTodo EXCEPT !.id = 1, !.ownerId = owner],
                                         JwtAuthGuard(tok))
             /\ BuildWhereConditions(JwtAuthGuard(tok), EmptyQuery, 0)'
                   = BuildWhereConditions(JwtAuthGuard(tok), EmptyQuery, 0)]_vars

C30_Witness ==
    \E p \in Procs, tok \in tokens :
        /\ proc[p].op = "updateRole" /\ proc[p].pc = "done" /\ proc[p].err = "none"
        /\ proc[p].by = JwtStrategyValidate(tok)
        /\ tok.role = ADMIN_ROLE
        /\ proc[p].pre[tok.sub] = USER_ROLE

====
